---- MODULE Spec2Model ----
(***************************************************************************)
(* A model of apx/node.py (py-apx): the integer type-code classification,  *)
(* the initial-value derivation and the Node registry / port lists.        *)
(*                                                                         *)
(* Python values are modelled as records with a "kind" field; None is      *)
(* [kind |-> "None"] and a raised exception [kind |-> "raise", exc |-> e]. *)
(* Text produced by % formatting is a sequence of one-character strings.   *)
(***************************************************************************)
EXTENDS Integers, Sequences, FiniteSets, TLC

VARIABLES
    dataType,      \* _getIntegerTypeCode: the autosar IntegerDataType passed in
    typeCode,      \* _getIntegerTypeCode: what the call produced
    item,          \* _deriveInitValueFromAutosarConstant: the constant passed in
    initValue,     \* _deriveInitValueFromAutosarConstant: what the call produced
    name,          \* Node.name
    dataTypes,     \* Node.dataTypes: the type records, in insertion order
    dataTypeMap,   \* Node.dataTypeMap: type name -> type record
    requirePorts,  \* Node.requirePorts: references (heap indices) to port objects
    providePorts,  \* Node.providePorts: references (heap indices) to port objects
    heap,          \* the port objects the lists refer to
    op,            \* the last call made on the node, with its argument
    ret            \* what that call returned or raised

intVars == <<dataType, typeCode>>
initVars == <<item, initValue>>
nodeVars == <<name, dataTypes, dataTypeMap, requirePorts, providePorts, heap, op, ret>>
vars == <<dataType, typeCode, item, initValue,
          name, dataTypes, dataTypeMap, requirePorts, providePorts, heap, op, ret>>

None == [kind |-> "None"]
Raise(e) == [kind |-> "raise", exc |-> e]

(***************************************************************************)
(* Integer type codes: _getIntegerTypeCode, _calcUIntTypeLen,              *)
(* _calcIntTypeLen (node.py 7-57).                                         *)
(***************************************************************************)

\* number of binary digits of n >= 0
RECURSIVE BitLength(_)
BitLength(n) == IF n = 0 THEN 0 ELSE 1 + BitLength(n \div 2)

\* The arguments n >= 1 for which the double-precision quotient
\* log(n)/log(2) that math.log(n,2) evaluates comes out just above the exact
\* integer logarithm, so that math.ceil rounds it up by one. Below 2^31 this
\* happens for 2^29 only (math.log(2**29,2) = 29.000000000000004).
FloatLogOvershoot == {536870912}

\* int(math.ceil(math.log(n,2))) for an integer 1 <= n < 2^31
CeilLog2(n) == BitLength(n - 1) + (IF n \in FloatLogOvershoot THEN 1 ELSE 0)

abs(n) == IF n < 0 THEN 0 - n ELSE n

\* _calcUIntTypeLen: math.log raises ValueError for 0 (math domain error)
_calcUIntTypeLen(dt) ==
    IF dt.maxVal <= 0 THEN Raise("ValueError")
    ELSE [kind |-> "int", value |-> CeilLog2(dt.maxVal)]

\* _calcIntTypeLen
_calcIntTypeLen(dt) ==
    IF abs(dt.maxVal) = 0 THEN Raise("ValueError")
    ELSE [kind |-> "int", value |-> CeilLog2(abs(dt.maxVal)) + 1]

\* a bare type code such as 'C', and the ranged form 'C(%d,%d)'
Code(c) == [kind |-> "sig", code |-> c, ranged |-> FALSE, lo |-> 0, hi |-> 0]
Ranged(c, lo, hi) == [kind |-> "sig", code |-> c, ranged |-> TRUE, lo |-> lo, hi |-> hi]

\* The attributes an autosar IntegerDataType has. The signed 8-bit branch
\* reads dataType.minval, which is not one of them: the read raises
\* AttributeError before anything is returned.
IntegerDataTypeAttrs == {"name", "minVal", "maxVal"}
GetAttr(dt, attr) ==
    IF attr \in IntegerDataTypeAttrs THEN [kind |-> "int", value |-> dt[attr]]
    ELSE Raise("AttributeError")

\* the branch for minVal >= 0, bits being what _calcUIntTypeLen gave
UnsignedTypeCode(dt, bits) ==
    IF bits.kind = "raise" THEN bits
    ELSE IF bits.value <= 8 THEN
        IF (dt.minVal > 0) \/ (dt.maxVal < 255)
        THEN Ranged("C", dt.minVal, dt.maxVal)
        ELSE Code("C")
    ELSE IF bits.value <= 16 THEN Code("S")
    ELSE IF bits.value <= 32 THEN Code("L")
    ELSE IF bits.value <= 64 THEN Code("U")
    ELSE None

\* the 8-bit choice of the branch for minVal < 0, minval being what the read
\* of dataType.minval gave
SignedByteCode(dt, minval) ==
    IF minval.kind = "raise" THEN minval
    ELSE IF (minval.value > -128) \/ (dt.maxVal < 127)
    THEN Ranged("c", minval.value, dt.maxVal)
    ELSE Code("c")

\* the branch for minVal < 0, bits being what _calcIntTypeLen gave
SignedTypeCode(dt, bits) ==
    IF bits.kind = "raise" THEN bits
    ELSE IF bits.value <= 8 THEN SignedByteCode(dt, GetAttr(dt, "minval"))
    ELSE IF bits.value <= 16 THEN Code("s")
    ELSE IF bits.value <= 32 THEN Code("l")
    ELSE IF bits.value <= 64 THEN Code("u")
    ELSE None

_getIntegerTypeCode(dt) ==
    IF dt.minVal >= 0
    THEN UnsignedTypeCode(dt, _calcUIntTypeLen(dt))
    ELSE SignedTypeCode(dt, _calcIntTypeLen(dt))

\* The declared bounds the classification is exercised on: the values around
\* every width boundary that fits a 32-bit integer.
UnsignedSamples ==
    {0, 1, 2, 3, 10, 100, 127, 128, 129, 254, 255, 256, 257, 1000, 32767, 32768,
     65535, 65536, 65537, 536870912, 2147483647}
NegativeSamples ==
    {-1, -2, -100, -127, -128, -129, -1000, -32768, -32769, -2147483647}
IntegerDataTypes ==
    {[name |-> "t", minVal |-> r[1], maxVal |-> r[2]] :
        r \in {p \in (UnsignedSamples \cup NegativeSamples)
                        \X (UnsignedSamples \cup NegativeSamples) : p[1] <= p[2]}}

NoDataType == [name |-> "", minVal |-> 0, maxVal |-> 0]

IntInit ==
    /\ dataType = NoDataType
    /\ typeCode = None

\* typeCode = _getIntegerTypeCode(dataType) for one declared range
GetIntegerTypeCode ==
    /\ \E dt \in IntegerDataTypes :
        /\ dataType' = dt
        /\ typeCode' = _getIntegerTypeCode(dt)
    /\ UNCHANGED <<initVars, nodeVars>>

(***************************************************************************)
(* Initial values: Node._deriveInitValueFromAutosarConstant (node.py       *)
(* 129-144).                                                               *)
(***************************************************************************)

DecDigit(d) == <<"0", "1", "2", "3", "4", "5", "6", "7", "8", "9">>[d + 1]
HexDigitUpper(d) ==
    <<"0", "1", "2", "3", "4", "5", "6", "7", "8", "9",
      "A", "B", "C", "D", "E", "F">>[d + 1]

\* "%d" % n
RECURSIVE FormatD(_)
FormatD(n) ==
    IF n < 0 THEN <<"-">> \o FormatD(0 - n)
    ELSE IF n < 10 THEN <<DecDigit(n)>>
    ELSE FormatD(n \div 10) \o <<DecDigit(n % 10)>>

RECURSIVE HexUpper(_)
HexUpper(n) ==
    IF n < 16 THEN <<HexDigitUpper(n)>>
    ELSE HexUpper(n \div 16) \o <<HexDigitUpper(n % 16)>>

\* faulty variant of Format02X, for the sensitivity of the properties: the width of the padding is 4 ("%04X")
RECURSIVE ZeroPad(_, _)
ZeroPad(digits, width) ==
    IF Len(digits) < width THEN ZeroPad(<<"0">> \o digits, width) ELSE digits
Format04X(n) == ZeroPad(HexUpper(n), 4)

\* "%02X" % n for n >= 0: uppercase hex, zero-padded to at least two digits
Format02X(n) ==
    LET digits == HexUpper(n) IN
    IF Len(digits) < 2 THEN <<"0">> \o digits ELSE digits

\* ','.join(parts)
RECURSIVE Join(_)
Join(parts) ==
    IF Len(parts) = 0 THEN <<>>
    ELSE IF Len(parts) = 1 THEN parts[1]
    ELSE parts[1] \o <<",">> \o Join(Tail(parts))

Text(chars) == [kind |-> "str", chars |-> chars]

\* "{"+','.join(tmp)+"}" for the derived elements tmp; the list comprehension
\* that builds tmp stops at the first element whose derivation raises
FirstRaise(tmp) ==
    tmp[CHOOSE i \in 1..Len(tmp) :
            tmp[i].kind = "raise" /\ \A j \in 1..(i - 1) : tmp[j].kind # "raise"]
Braced(tmp) ==
    IF \E i \in 1..Len(tmp) : tmp[i].kind = "raise"
    THEN FirstRaise(tmp)
    ELSE Text(<<"{">> \o Join([i \in 1..Len(tmp) |-> tmp[i].chars]) \o <<"}">>)

RECURSIVE _deriveInitValueFromAutosarConstant(_)
_deriveInitValueFromAutosarConstant(c) ==
    IF c.kind = "IntegerValue" THEN
        IF c.value > 255
        THEN Text(<<"0", "x">> \o Format02X(c.value))
        ELSE Text(FormatD(c.value))
    ELSE IF c.kind = "StringValue" THEN
        Text(<<"\"">> \o c.value \o <<"\"">>)
    ELSE IF c.kind \in {"RecordValue", "ArrayValue"} THEN
        Braced([i \in 1..Len(c.elements) |->
                    _deriveInitValueFromAutosarConstant(c.elements[i])])
    ELSE Raise("NotImplementedError")

\* Bounds of the constants the derivation is exercised on.
MaxInt == 300
MaxElems == 2

IntegerValue(n) == [kind |-> "IntegerValue", value |-> n]
StringValue(s) == [kind |-> "StringValue", value |-> s]
RecordValue(es) == [kind |-> "RecordValue", elements |-> es]
ArrayValue(es) == [kind |-> "ArrayValue", elements |-> es]
\* a constant kind the derivation has no branch for
BooleanValue == [kind |-> "BooleanValue"]

SeqsUpTo(S, n) == UNION {[1..k -> S] : k \in 0..n}

IntegerValues ==
    {IntegerValue(n) : n \in (0..MaxInt) \cup {-1, -300, 4096, 43981, 65535}}
StringValues == {StringValue(<<>>), StringValue(<<"a">>), StringValue(<<"a", "b">>)}
ElementSamples ==
    {IntegerValue(1), IntegerValue(255), IntegerValue(256), StringValue(<<"a">>),
     BooleanValue}
FlatComposites ==
    {RecordValue(es) : es \in SeqsUpTo(ElementSamples, MaxElems)}
        \cup {ArrayValue(es) : es \in SeqsUpTo(ElementSamples, MaxElems)}
NestedSamples ==
    {IntegerValue(1), StringValue(<<"a">>),
     RecordValue(<<IntegerValue(1), StringValue(<<"a">>)>>),
     ArrayValue(<<>>), ArrayValue(<<IntegerValue(256)>>),
     RecordValue(<<BooleanValue>>)}
NestedComposites ==
    {RecordValue(es) : es \in SeqsUpTo(NestedSamples, MaxElems)}
        \cup {ArrayValue(es) : es \in SeqsUpTo(NestedSamples, MaxElems)}
Constants ==
    IntegerValues \cup StringValues \cup {BooleanValue}
        \cup FlatComposites \cup NestedComposites

ConstInit ==
    /\ item = BooleanValue
    /\ initValue = None

\* initValue = self._deriveInitValueFromAutosarConstant(item)
DeriveInitValue ==
    /\ \E c \in Constants :
        /\ item' = c
        /\ initValue' = _deriveInitValueFromAutosarConstant(c)
    /\ UNCHANGED <<intVars, nodeVars>>

(***************************************************************************)
(* The foreign (autosar) workspace a node imports from.                    *)
(***************************************************************************)

\* autosar data types, by kind; semantics is what
\* ws.find('/DataType/DataTypeSemantics/<name>') gives for the type
CompuMethodConst(values) == [kind |-> "CompuMethodConst", elements |-> values]
ForeignU8Range ==
    [kind |-> "IntegerDataType", name |-> "U8Range", minVal |-> 0, maxVal |-> 10,
     length |-> 0, semantics |-> None]
ForeignS8 ==
    [kind |-> "IntegerDataType", name |-> "S8", minVal |-> -128, maxVal |-> 127,
     length |-> 0, semantics |-> None]
ForeignOnOff ==
    [kind |-> "BooleanDataType", name |-> "OnOff", minVal |-> 0, maxVal |-> 1,
     length |-> 0, semantics |-> CompuMethodConst(<<"Off", "On">>)]

\* an autosar port: its class, its port interface (a SenderReceiverInterface
\* or not, and how many data elements), the data type of dataElements[0],
\* and the initValueRef of its single DataElementComSpec (None when the port
\* has no such comspec or the comspec has no initValueRef)
ForeignPort(cls, n, isSR, nElems, type, ref) ==
    [cls |-> cls, name |-> n, isSenderReceiver |-> isSR, nDataElements |-> nElems,
     type |-> type, initValueRef |-> ref]
\* an initValueRef and what ws.find gives for it
RefTo(target) == [kind |-> "ref", target |-> target]
Constant(v) == [kind |-> "Constant", value |-> v]

ForeignPorts ==
    {ForeignPort("RequirePort", "In", TRUE, 1, ForeignU8Range,
                 RefTo(Constant(IntegerValue(3)))),
     ForeignPort("ProvidePort", "Out", TRUE, 1, ForeignOnOff, None),
     ForeignPort("RequirePort", "Bad", TRUE, 1, ForeignS8, None),
     ForeignPort("RequirePort", "Multi", TRUE, 2, ForeignU8Range, None),
     ForeignPort("RequirePort", "Call", FALSE, 1, ForeignU8Range, None),
     ForeignPort("RequirePort", "In", TRUE, 1, ForeignOnOff, RefTo(None)),
     ForeignPort("Port", "Any", TRUE, 1, ForeignU8Range, None)}

(***************************************************************************)
(* Data signatures, data types and ports (the apx package).                *)
(***************************************************************************)

\* a port signature T[<id>] or T["<name>"], not yet resolved
RefId(i) == [kind |-> "ref", byName |-> FALSE, name |-> "", index |-> i, resolved |-> FALSE]
RefName(n) == [kind |-> "ref", byName |-> TRUE, name |-> n, index |-> -1, resolved |-> FALSE]
\* port.dsg.dataElement.isReference
isReference(dsg) == dsg.kind = "ref"

\* the id of a port that was constructed and not appended (None)
NoId == -1

DataType(n, dsg, attr) == [name |-> n, dsg |-> dsg, attr |-> attr, id |-> NoId]
Port(cls, n, dsg, attr) == [cls |-> cls, name |-> n, dsg |-> dsg, attr |-> attr, id |-> NoId]
RequirePort(n, dsg, attr) == Port("RequirePort", n, dsg, attr)
ProvidePort(n, dsg, attr) == Port("ProvidePort", n, dsg, attr)

\* DataSignature.resolve_data_element(typeList): a reference is bound to the
\* type it names, by name or by index, and raises when the registry has no
\* such type; a concrete or already bound signature is left as it is
resolve_data_element(dsg, typeList) ==
    IF ~isReference(dsg) \/ dsg.resolved THEN dsg
    ELSE IF dsg.byName THEN
        LET hits == {i \in 1..Len(typeList) : typeList[i].name = dsg.name} IN
        IF hits = {} THEN Raise("ValueError")
        ELSE [dsg EXCEPT !.index = typeList[CHOOSE i \in hits : TRUE].id,
                         !.resolved = TRUE]
    ELSE IF 0 <= dsg.index /\ dsg.index < Len(typeList)
        THEN [dsg EXCEPT !.resolved = TRUE]
        ELSE Raise("ValueError")

\* Port.resolve_type(typeList)
resolve_type(port, typeList) == resolve_data_element(port.dsg, typeList)

\* Port.mirror(): a new port of the other class with the same name,
\* signature and attribute; it belongs to no list yet
Port_mirror(port) ==
    IF port.cls = "RequirePort"
    THEN ProvidePort(port.name, port.dsg, port.attr)
    ELSE RequirePort(port.name, port.dsg, port.attr)

\* one line of APX text: T"<name>"<dsg>[:<attr>], P..., R..., and N"<name>"
Line(tag, n, dsg, attr) == [tag |-> tag, name |-> n, dsg |-> dsg, attr |-> attr]
\* str(port)
Port_str(port) ==
    Line(IF port.cls = "RequirePort" THEN "R" ELSE "P", port.name, port.dsg, port.attr)

(***************************************************************************)
(* AutosarDataType (node.py 350-404).                                      *)
(***************************************************************************)

AutosarDataType_calcAttribute(typeSemantics) ==
    IF typeSemantics.kind = "CompuMethodConst"
    THEN [kind |-> "VT", values |-> typeSemantics.elements]
    ELSE None

\* _calcDataSignature; the ArrayDataType branch reads the name typeData,
\* which nothing defines
AutosarDataType_calcDataSignature(foreign) ==
    IF foreign.kind = "BooleanDataType" THEN Ranged("C", 0, 1)
    ELSE IF foreign.kind = "IntegerDataType" THEN _getIntegerTypeCode(foreign)
    ELSE IF foreign.kind = "ArrayDataType" THEN Raise("NameError")
    ELSE IF foreign.kind = "StringDataType"
        THEN [kind |-> "sig", code |-> "a", ranged |-> FALSE, lo |-> 0, hi |-> 0,
              length |-> foreign.length + 1]
    ELSE Raise("Exception")

\* AutosarDataType(ws, dataType, parent): the new type record, or the
\* exception its signature raises
AutosarDataType_init(foreign, dsg) ==
    IF dsg.kind = "raise" THEN dsg
    \* no signature (an integer wider than 64 bits): not among the modelled types
    ELSE IF dsg.kind # "sig" THEN Raise("TypeError")
    ELSE [kind |-> "type",
          value |-> DataType(foreign.name, dsg,
                        IF foreign.semantics # None
                        THEN AutosarDataType_calcAttribute(foreign.semantics)
                        ELSE None)]

AutosarDataType(foreign) ==
    AutosarDataType_init(foreign, AutosarDataType_calcDataSignature(foreign))

AutosarDataType_str(t) == Line("T", t.name, t.dsg, t.attr)

(***************************************************************************)
(* Node (node.py 59-306). A node is the record of its fields together with *)
(* the port objects its lists refer to; every method is an operator from   *)
(* a node (and the arguments) to [self |-> the node after, ret |-> what    *)
(* the call returned or raised].                                           *)
(***************************************************************************)

Self ==
    [name |-> name, dataTypes |-> dataTypes, dataTypeMap |-> dataTypeMap,
     requirePorts |-> requirePorts, providePorts |-> providePorts, heap |-> heap]

\* Node.__init__
Node(n) ==
    [name |-> n, dataTypes |-> <<>>, dataTypeMap |-> <<>>,
     requirePorts |-> <<>>, providePorts |-> <<>>, heap |-> <<>>]

Returns(self, r) == [self |-> self, ret |-> r]
TypeRet(t) == [kind |-> "type", value |-> t]
PortRet(h) == [kind |-> "port", handle |-> h]

MapPut(m, k, v) == [x \in DOMAIN m \cup {k} |-> IF x = k THEN v ELSE m[x]]

\* the type record gets its id, is indexed by name and appended
Register(self, new) ==
    Returns([self EXCEPT !.dataTypeMap = MapPut(self.dataTypeMap, new.name, new),
                         !.dataTypes = Append(self.dataTypes, new)],
            TypeRet(new))

\* _updateDataType, for a name the map does not hold: item is the new
\* AutosarDataType, or what its construction raised
RegisterNew(self, made) ==
    IF made.kind = "raise" THEN Returns(self, made)
    ELSE Register(self, [made.value EXCEPT !.id = Len(self.dataTypes)])

\* faulty variant of _updateDataType, for the sensitivity of the properties: the name is not looked up in dataTypeMap
_updateDataType_NoDedup(self, port) ==
    IF port.isSenderReceiver THEN
        IF port.nDataElements = 1
        THEN RegisterNew(self, AutosarDataType(port.type))
        ELSE IF port.nDataElements > 1 THEN Returns(self, Raise("NotImplementedError"))
        ELSE Returns(self, None)
    ELSE Returns(self, None)

\* _updateDataType(ws, port)
_updateDataType(self, port) ==
    IF port.isSenderReceiver THEN
        IF port.nDataElements = 1 THEN
            IF port.type.name \notin DOMAIN self.dataTypeMap
            THEN RegisterNew(self, AutosarDataType(port.type))
            ELSE Returns(self, TypeRet(self.dataTypeMap[port.type.name]))
        ELSE IF port.nDataElements > 1 THEN Returns(self, Raise("NotImplementedError"))
        ELSE Returns(self, None)
    ELSE Returns(self, None)

\* "="+<the derived literal>
Prefixed(lit) == IF lit.kind = "raise" THEN lit ELSE Text(<<"=">> \o lit.chars)

\* _calcAttributeFromAutosarPort(ws, port)
_calcAttributeFromAutosarPort(port) ==
    IF port.initValueRef # None THEN
        LET initVal == port.initValueRef.target IN
        IF initVal = None THEN Raise("ValueError")
        ELSE Prefixed(_deriveInitValueFromAutosarConstant(
                        IF initVal.kind = "Constant" THEN initVal.value ELSE initVal))
    ELSE None

\* add_type once dataType.id is set: dsg is what
\* dataType.dsg.resolve_data_element(self.dataTypes) gave
AddResolved(self, numbered, dsg) ==
    IF dsg.kind = "raise" THEN Returns(self, dsg)
    ELSE Register(self, [numbered EXCEPT !.dsg = dsg])

\* faulty variant of add_type, for the sensitivity of the properties: a name the map already holds is not rejected
add_type_NoCheck(self, dt) ==
    AddResolved(self, [dt EXCEPT !.id = Len(self.dataTypes)],
                resolve_data_element(dt.dsg, self.dataTypes))

\* add_type(dataType)
add_type(self, dt) ==
    IF dt.name \notin DOMAIN self.dataTypeMap
    THEN AddResolved(self, [dt EXCEPT !.id = Len(self.dataTypes)],
                     resolve_data_element(dt.dsg, self.dataTypes))
    ELSE Returns(self, Raise("ValueError"))

\* add_require_port(port), port being the heap index of a port object: the
\* id is set, then a reference is resolved, then the port is appended
RequireResolved(self, h, dsg) ==
    IF dsg.kind = "raise" THEN Returns(self, dsg)
    ELSE Returns([self EXCEPT !.heap[h].dsg = dsg,
                              !.requirePorts = Append(self.requirePorts, h)],
                 PortRet(h))
\* faulty variant of RequireNumbered, for the sensitivity of the properties: the port is appended without resolving its
\* reference
RequireNumbered_NoResolve(self, h) ==
    Returns([self EXCEPT !.requirePorts = Append(self.requirePorts, h)], PortRet(h))
RequireNumbered(self, h) ==
    IF isReference(self.heap[h].dsg)
    THEN RequireResolved(self, h, resolve_type(self.heap[h], self.dataTypes))
    ELSE Returns([self EXCEPT !.requirePorts = Append(self.requirePorts, h)], PortRet(h))
add_require_port(self, h) ==
    RequireNumbered([self EXCEPT !.heap[h].id = Len(self.requirePorts)], h)

\* add_provide_port(port)
ProvideResolved(self, h, dsg) ==
    IF dsg.kind = "raise" THEN Returns(self, dsg)
    ELSE Returns([self EXCEPT !.heap[h].dsg = dsg,
                              !.providePorts = Append(self.providePorts, h)],
                 PortRet(h))
ProvideNumbered(self, h) ==
    IF isReference(self.heap[h].dsg)
    THEN ProvideResolved(self, h, resolve_type(self.heap[h], self.dataTypes))
    ELSE Returns([self EXCEPT !.providePorts = Append(self.providePorts, h)], PortRet(h))
add_provide_port(self, h) ==
    ProvideNumbered([self EXCEPT !.heap[h].id = Len(self.providePorts)], h)

\* apx.RequirePort(...) / apx.ProvidePort(...): a new port object
New(self, port) == [self EXCEPT !.heap = Append(self.heap, port)]
\* A port object that no list refers to after the call that made it cannot
\* be reached from the node any more: it leaves the heap.
Referenced(self) ==
    {self.requirePorts[i] : i \in 1..Len(self.requirePorts)}
        \cup {self.providePorts[i] : i \in 1..Len(self.providePorts)}
Collect(r) ==
    IF Len(r.self.heap) > 0 /\ Len(r.self.heap) \notin Referenced(r.self)
    THEN Returns([r.self EXCEPT !.heap = SubSeq(r.self.heap, 1, Len(r.self.heap) - 1)],
                 r.ret)
    ELSE r

\* a new port object is made and handed to add_require_port / add_provide_port
AddNew(made) ==
    IF made.heap[Len(made.heap)].cls = "RequirePort"
    THEN Collect(add_require_port(made, Len(made.heap)))
    ELSE Collect(add_provide_port(made, Len(made.heap)))

\* add_autosar_port(port, ws)
\* add_autosar_port once the attribute is computed: the apx port
\* "T[%s]"%dataType.id is made and added
AddTyped(reg, port, attr) ==
    IF attr.kind = "raise" THEN Returns(reg.self, attr)
    ELSE AddNew(New(reg.self, Port(port.cls, port.name, RefId(reg.ret.value.id), attr)))

\* add_autosar_port once dataType = self._updateDataType(ws, port) is done
AddRegistered(reg, port) ==
    IF reg.ret.kind = "raise" THEN reg
    ELSE IF reg.ret # None THEN
        IF port.cls \in {"RequirePort", "ProvidePort"}
        THEN AddTyped(reg, port, _calcAttributeFromAutosarPort(port))
        ELSE Returns(reg.self, Raise("ValueError"))
    ELSE Returns(reg.self, None)

add_autosar_port(self, port) == AddRegistered(_updateDataType(self, port), port)

\* the items append() is called with: a DataType, a new or an already
\* appended RequirePort / ProvidePort object, an autosar port, a text line
\* (as apx_split_line splits it) and anything else
TypeItem(dt) == [kind |-> "DataType", value |-> dt]
NewPortItem(port) == [kind |-> "NewPort", value |-> port]
HeapPortItem(h) == [kind |-> "HeapPort", handle |-> h]
AutosarPortItem(port) == [kind |-> "AutosarPort", value |-> port]
LineItem(parts) == [kind |-> "str", parts |-> parts]
OtherItem == [kind |-> "int"]

\* append(item)
append(self, it) ==
    IF it.kind = "DataType" THEN add_type(self, it.value)
    ELSE IF it.kind = "NewPort" THEN AddNew(New(self, it.value))
    ELSE IF it.kind = "HeapPort" /\ self.heap[it.handle].cls = "RequirePort" THEN
        add_require_port(self, it.handle)
    ELSE IF it.kind = "HeapPort" /\ self.heap[it.handle].cls = "ProvidePort" THEN
        add_provide_port(self, it.handle)
    ELSE IF it.kind = "AutosarPort" THEN add_autosar_port(self, it.value)
    ELSE IF it.kind = "str" THEN
        IF Len(it.parts) # 4 THEN Returns(self, Raise("ValueError"))
        ELSE IF it.parts[1] = "R" THEN
            AddNew(New(self, RequirePort(it.parts[2], it.parts[3], it.parts[4])))
        ELSE IF it.parts[1] = "P" THEN
            AddNew(New(self, ProvidePort(it.parts[2], it.parts[3], it.parts[4])))
        ELSE Returns(self, Raise("ValueError"))
    \* raise ValueError(type(port)): no name port is defined in append
    ELSE Returns(self, Raise("NameError"))

\* import_autosar_swc(swc, ws, name): the ports in order, stopping at the
\* first call that raises
RECURSIVE AddAutosarPorts(_, _)
AddedOne(r, rest) == IF r.ret.kind = "raise" THEN r ELSE AddAutosarPorts(r.self, rest)
AddAutosarPorts(self, ports) ==
    IF Len(ports) = 0 THEN Returns(self, None)
    ELSE AddedOne(add_autosar_port(self, Head(ports)), Tail(ports))

\* return self
ReturnSelf(r) == IF r.ret.kind = "raise" THEN r ELSE Returns(r.self, [kind |-> "self"])

import_autosar_swc(self, swc, n) ==
    ReturnSelf(AddAutosarPorts([self EXCEPT !.name = IF n = None THEN swc.name ELSE n],
                               swc.providePorts \o swc.requirePorts))

\* resolve_types()
RECURSIVE ResolvePorts(_, _)
Resolved(self, hs, dsg) ==
    IF dsg.kind = "raise" THEN Returns(self, dsg)
    ELSE ResolvePorts([self EXCEPT !.heap[Head(hs)].dsg = dsg], Tail(hs))
ResolvePorts(self, hs) ==
    IF Len(hs) = 0 THEN Returns(self, None)
    ELSE IF isReference(self.heap[Head(hs)].dsg)
    THEN Resolved(self, hs, resolve_type(self.heap[Head(hs)], self.dataTypes))
    ELSE ResolvePorts(self, Tail(hs))

resolve_types(self) == ResolvePorts(self, self.requirePorts \o self.providePorts)

\* faulty variant of lines, for the sensitivity of the properties: the require ports come before the provide ports
lines_RequireFirst(self) ==
    <<Line("N", self.name, None, None)>>
        \o [i \in 1..Len(self.dataTypes) |-> AutosarDataType_str(self.dataTypes[i])]
        \o [i \in 1..Len(self.requirePorts) |-> Port_str(self.heap[self.requirePorts[i]])]
        \o [i \in 1..Len(self.providePorts) |-> Port_str(self.heap[self.providePorts[i]])]

\* lines()
lines(self) ==
    <<Line("N", self.name, None, None)>>
        \o [i \in 1..Len(self.dataTypes) |-> AutosarDataType_str(self.dataTypes[i])]
        \o [i \in 1..Len(self.providePorts) |-> Port_str(self.heap[self.providePorts[i]])]
        \o [i \in 1..Len(self.requirePorts) |-> Port_str(self.heap[self.requirePorts[i]])]

\* write(fp): what fp has received, one print after the other
RECURSIVE PrintAll(_, _)
PrintAll(fp, ls) == IF Len(ls) = 0 THEN fp ELSE PrintAll(Append(fp, Head(ls)), Tail(ls))

write(self) ==
    PrintAll(
        PrintAll(
            PrintAll(
                PrintAll(<<>>, <<Line("N", self.name, None, None)>>),
                [i \in 1..Len(self.dataTypes) |-> AutosarDataType_str(self.dataTypes[i])]),
            [i \in 1..Len(self.providePorts) |-> Port_str(self.heap[self.providePorts[i]])]),
        [i \in 1..Len(self.requirePorts) |-> Port_str(self.heap[self.requirePorts[i]])])

\* mirror(name): the new node; its port objects are new, one per list entry
\* for dataType in mirror.dataTypes: mirror.dataTypeMap[dataType.name]=dataType
\* (a later type of the same name would replace an earlier one)
LastNamed(types, x) ==
    types[CHOOSE i \in 1..Len(types) :
            types[i].name = x /\ \A j \in (i + 1)..Len(types) : types[j].name # x]
MapOf(types) == [x \in {types[i].name : i \in 1..Len(types)} |-> LastNamed(types, x)]

\* faulty variant of mirror, for the sensitivity of the properties: the two lists are not exchanged
mirror_NoSwap(self, n) ==
    [name |-> IF n = None THEN self.name ELSE n,
     dataTypes |-> self.dataTypes,
     requirePorts |-> [i \in 1..Len(self.requirePorts) |-> i],
     providePorts |-> [i \in 1..Len(self.providePorts) |-> Len(self.requirePorts) + i],
     dataTypeMap |-> MapOf(self.dataTypes),
     heap |-> [i \in 1..Len(self.requirePorts) |->
                    Port_mirror(self.heap[self.requirePorts[i]])]
                \o [i \in 1..Len(self.providePorts) |->
                    Port_mirror(self.heap[self.providePorts[i]])]]

mirror(self, n) ==
    [name |-> IF n = None THEN self.name ELSE n,
     dataTypes |-> self.dataTypes,
     requirePorts |-> [i \in 1..Len(self.providePorts) |-> i],
     providePorts |-> [i \in 1..Len(self.requirePorts) |-> Len(self.providePorts) + i],
     dataTypeMap |-> MapOf(self.dataTypes),
     heap |-> [i \in 1..Len(self.providePorts) |->
                    Port_mirror(self.heap[self.providePorts[i]])]
                \o [i \in 1..Len(self.requirePorts) |->
                    Port_mirror(self.heap[self.requirePorts[i]])]]

(***************************************************************************)
(* The calls made on the node.                                             *)
(***************************************************************************)

\* the most entries the two port lists hold together
MaxPorts == 2

NodeName(n) == [kind |-> "str", value |-> n]

UserTypes == {DataType("U8Range", Code("S"), None)}
UserPorts ==
    {RequirePort("Sel", RefName("OnOff"), None),
     ProvidePort("Out", RefId(1), Text(<<"=", "1">>))}
TextLines ==
    {LineItem(<<"P", "Out", Code("l"), None>>),
     LineItem(<<"X", "Out", Code("l"), None>>),
     LineItem(<<"R", "In">>)}
Items(self) ==
    {TypeItem(dt) : dt \in UserTypes}
        \cup {NewPortItem(port) : port \in UserPorts}
        \cup {HeapPortItem(h) : h \in 1..Len(self.heap)}
        \cup {AutosarPortItem(port) : port \in ForeignPorts}
        \cup TextLines \cup {OtherItem}

Swc(n, provides, requires) ==
    [name |-> NodeName(n), providePorts |-> provides, requirePorts |-> requires]
Swcs ==
    {Swc("Peer",
         <<ForeignPort("ProvidePort", "Out", TRUE, 1, ForeignOnOff, None)>>,
         <<ForeignPort("RequirePort", "In", TRUE, 1, ForeignU8Range,
                       RefTo(Constant(IntegerValue(3))))>>),
     Swc("Peer",
         <<ForeignPort("ProvidePort", "Level", TRUE, 1, ForeignU8Range,
                       RefTo(Constant(IntegerValue(256))))>>,
         <<ForeignPort("RequirePort", "Bad", TRUE, 1, ForeignS8, None)>>)}
NameArgs == {None, NodeName("Peer")}

NodeInit ==
    /\ name = None
    /\ dataTypes = <<>>
    /\ dataTypeMap = <<>>
    /\ requirePorts = <<>>
    /\ providePorts = <<>>
    /\ heap = <<>>
    /\ op = [name |-> "Node"]
    /\ ret = None

Install(r) ==
    /\ name' = r.self.name
    /\ dataTypes' = r.self.dataTypes
    /\ dataTypeMap' = r.self.dataTypeMap
    /\ requirePorts' = r.self.requirePorts
    /\ providePorts' = r.self.providePorts
    /\ heap' = r.self.heap
    /\ ret' = r.ret

Room(k) == Len(requirePorts) + Len(providePorts) + k <= MaxPorts

\* node.append(item)
Append_ ==
    /\ \E it \in Items(Self) :
        /\ it.kind \in {"NewPort", "HeapPort", "AutosarPort", "str"} => Room(1)
        /\ op' = [name |-> "append", arg |-> it]
        /\ Install(append(Self, it))
    /\ UNCHANGED <<intVars, initVars>>

\* node._updateDataType(ws, port)
UpdateDataType ==
    /\ \E port \in ForeignPorts :
        /\ op' = [name |-> "_updateDataType", arg |-> port]
        /\ Install(_updateDataType(Self, port))
    /\ UNCHANGED <<intVars, initVars>>

\* node.import_autosar_swc(swc, ws, name)
ImportAutosarSwc ==
    /\ \E swc \in Swcs, n \in NameArgs :
        /\ Room(Len(swc.providePorts) + Len(swc.requirePorts))
        /\ op' = [name |-> "import_autosar_swc", arg |-> swc]
        /\ Install(import_autosar_swc(Self, swc, n))
    /\ UNCHANGED <<intVars, initVars>>

\* node.resolve_types()
ResolveTypes ==
    /\ op' = [name |-> "resolve_types"]
    /\ Install(resolve_types(Self))
    /\ UNCHANGED <<intVars, initVars>>

\* node.lines()
Lines ==
    /\ op' = [name |-> "lines"]
    /\ ret' = [kind |-> "lines", value |-> lines(Self)]
    /\ UNCHANGED <<name, dataTypes, dataTypeMap, requirePorts, providePorts, heap>>
    /\ UNCHANGED <<intVars, initVars>>

\* node.write(fp)
Write ==
    /\ op' = [name |-> "write"]
    /\ ret' = [kind |-> "fp", value |-> write(Self)]
    /\ UNCHANGED <<name, dataTypes, dataTypeMap, requirePorts, providePorts, heap>>
    /\ UNCHANGED <<intVars, initVars>>

\* node.mirror(name)
Mirror ==
    /\ \E n \in NameArgs :
        /\ op' = [name |-> "mirror", arg |-> n]
        /\ ret' = [kind |-> "node", value |-> mirror(Self, n), depth |-> 1,
                   names |-> <<n>>]
    /\ UNCHANGED <<name, dataTypes, dataTypeMap, requirePorts, providePorts, heap>>
    /\ UNCHANGED <<intVars, initVars>>

\* the node the last call returned is mirrored in turn: node.mirror().mirror()
MirrorBack ==
    /\ ret.kind = "node" /\ ret.depth = 1
    /\ \E n \in NameArgs :
        /\ op' = [name |-> "mirror.mirror", arg |-> n]
        /\ ret' = [kind |-> "node", value |-> mirror(ret.value, n), depth |-> 2,
                   names |-> Append(ret.names, n)]
    /\ UNCHANGED <<name, dataTypes, dataTypeMap, requirePorts, providePorts, heap>>
    /\ UNCHANGED <<intVars, initVars>>

Init == IntInit /\ ConstInit /\ NodeInit

Next ==
    \/ Append_
    \/ UpdateDataType
    \/ ImportAutosarSwc
    \/ ResolveTypes
    \/ Lines
    \/ Write
    \/ Mirror
    \/ MirrorBack

Spec == Init /\ [][Next]_vars

SpecInt == Init /\ [][GetIntegerTypeCode]_vars
SpecInit == Init /\ [][DeriveInitValue]_vars
(***************************************************************************)
(* Claims about the integer type codes (checked under SpecInt).            *)
(***************************************************************************)

\* ceil(log2(n)) in exact arithmetic, for n >= 1
ExactCeilLog2(n) == BitLength(n - 1)
\* the smallest of the widths 8, 16, 32, 64 covering a bit count
WidthClass(bits) ==
    IF bits <= 8 THEN 8 ELSE IF bits <= 16 THEN 16 ELSE IF bits <= 32 THEN 32 ELSE 64
UnsignedCode(w) == CASE w = 8 -> "C" [] w = 16 -> "S" [] w = 32 -> "L" [] OTHER -> "U"
SignedCode(w) == CASE w = 8 -> "c" [] w = 16 -> "s" [] w = 32 -> "l" [] OTHER -> "u"

Classified == dataType # NoDataType

\* C1: for an unsigned range (minVal >= 0, maxVal >= 1) the result is the code
\* of the smallest width class covering ceil(log2(maxVal)); in the 8-bit class
\* it is the ranged form C(min,max) iff maxVal # 255 or minVal # 0, and bare C
\* otherwise.
C1_UnsignedClassAndRangedForm ==
    (Classified /\ dataType.minVal >= 0 /\ dataType.maxVal >= 1) =>
        LET w == WidthClass(ExactCeilLog2(dataType.maxVal)) IN
        /\ typeCode.kind = "sig"
        /\ typeCode.code = UnsignedCode(w)
        /\ typeCode.ranged <=>
                (w = 8 /\ (dataType.maxVal # 255 \/ dataType.minVal # 0))
        /\ typeCode.ranged =>
                (typeCode.lo = dataType.minVal /\ typeCode.hi = dataType.maxVal)

\* whether the width class of a type code can represent v (|v| < 2^31 here,
\* so every modelled v is within the 32- and 64-bit bounds on the far side)
Representable(code, v) ==
    CASE code = "C" -> 0 <= v /\ v <= 255
      [] code = "S" -> 0 <= v /\ v <= 65535
      [] code = "L" -> 0 <= v
      [] code = "U" -> 0 <= v
      [] code = "c" -> -128 <= v /\ v <= 127
      [] code = "s" -> -32768 <= v /\ v <= 32767
      [] code = "l" -> TRUE
      [] code = "u" -> TRUE

\* C2: whenever a signature is returned for minVal <= maxVal, its width class
\* can represent both declared bounds (hence every value between them).
C2_ClassHoldsDeclaredRange ==
    (Classified /\ typeCode.kind = "sig") =>
        /\ Representable(typeCode.code, dataType.minVal)
        /\ Representable(typeCode.code, dataType.maxVal)

\* C8: for a signed range (minVal < 0, maxVal >= 1) the width is
\* ceil(log2(abs(maxVal))) + 1 and a signature is returned for it: c for
\* [-128,127], c(min,max) for any other 8-bit range, s, l, u for the wider
\* classes.
C8_SignedClassAndRangedForm ==
    (Classified /\ dataType.minVal < 0 /\ dataType.maxVal >= 1) =>
        LET w == WidthClass(ExactCeilLog2(abs(dataType.maxVal)) + 1) IN
        typeCode =
            IF w = 8 /\ ~(dataType.minVal = -128 /\ dataType.maxVal = 127)
            THEN Ranged("c", dataType.minVal, dataType.maxVal)
            ELSE Code(SignedCode(w))

(***************************************************************************)
(* Claims about the initial-value derivation (checked under SpecInit).     *)
(***************************************************************************)

Derived == initValue # None

DecValue(ch) == CHOOSE d \in 0..9 : DecDigit(d) = ch
HexValue(ch) == CHOOSE d \in 0..15 : HexDigitUpper(d) = ch
IsDecDigits(s) == Len(s) >= 1 /\ \A i \in 1..Len(s) : \E d \in 0..9 : DecDigit(d) = s[i]
IsHexDigits(s) ==
    Len(s) >= 1 /\ \A i \in 1..Len(s) : \E d \in 0..15 : HexDigitUpper(d) = s[i]
RECURSIVE ParseDec(_)
ParseDec(s) ==
    IF Len(s) = 1 THEN DecValue(s[1])
    ELSE 10 * ParseDec(SubSeq(s, 1, Len(s) - 1)) + DecValue(s[Len(s)])
RECURSIVE ParseHex(_)
ParseHex(s) ==
    IF Len(s) = 1 THEN HexValue(s[1])
    ELSE 16 * ParseHex(SubSeq(s, 1, Len(s) - 1)) + HexValue(s[Len(s)])

\* chars is the decimal literal of n
IsDecimalLiteralOf(chars, n) ==
    IF n < 0
    THEN /\ Len(chars) >= 2 /\ chars[1] = "-"
         /\ IsDecDigits(Tail(chars)) /\ ParseDec(Tail(chars)) = 0 - n
    ELSE IsDecDigits(chars) /\ ParseDec(chars) = n
\* chars is 0x followed by uppercase hexadecimal digits denoting n
IsHexLiteralOf(chars, n) ==
    /\ Len(chars) >= 3 /\ chars[1] = "0" /\ chars[2] = "x"
    /\ IsHexDigits(SubSeq(chars, 3, Len(chars)))
    /\ ParseHex(SubSeq(chars, 3, Len(chars))) = n

\* what the claim says of every constant but the integer 256
DerivationRules ==
    /\ item.kind = "IntegerValue" /\ item.value <= 255 =>
            initValue.kind = "str" /\ IsDecimalLiteralOf(initValue.chars, item.value)
    /\ item = IntegerValue(255) => initValue = Text(<<"2", "5", "5">>)
    /\ item.kind = "IntegerValue" /\ item.value > 255 =>
            initValue.kind = "str" /\ IsHexLiteralOf(initValue.chars, item.value)
    /\ item.kind = "StringValue" =>
            initValue = Text(<<"\"">> \o item.value \o <<"\"">>)
    /\ item.kind \in {"RecordValue", "ArrayValue"} =>
            LET parts == [i \in 1..Len(item.elements) |->
                            _deriveInitValueFromAutosarConstant(item.elements[i])]
            IN  IF \A i \in 1..Len(parts) : parts[i].kind = "str"
                THEN initValue =
                        Text(<<"{">> \o Join([i \in 1..Len(parts) |-> parts[i].chars])
                                \o <<"}">>)
                ELSE initValue = Raise("NotImplementedError")
    /\ item = RecordValue(<<IntegerValue(1), StringValue(<<"a">>)>>) =>
            initValue = Text(<<"{", "1", ",", "\"", "a", "\"", "}">>)
    /\ item.kind \notin {"IntegerValue", "StringValue", "RecordValue", "ArrayValue"} =>
            initValue = Raise("NotImplementedError")

\* C7 as stated: the derivation rules, with the integer 256 giving 0x0100.
C7_AsStated ==
    Derived =>
        /\ DerivationRules
        /\ item = IntegerValue(256) => initValue = Text(<<"0", "x", "0", "1", "0", "0">>)

\* C7 as amended: integers <= 255 give their decimal literal (255 -> 255),
\* integers > 255 their uppercase hexadecimal literal prefixed 0x with at least
\* two digits, so that 256 gives 0x100; strings are quoted; records and arrays
\* are the comma-joined derivations of their elements in braces; any other
\* kind, at the top or in an element, raises NotImplementedError.
C7_DerivedLiteral ==
    Derived =>
        /\ DerivationRules
        /\ item = IntegerValue(256) => initValue = Text(<<"0", "x", "1", "0", "0">>)

C7_Witness == item = IntegerValue(256) /\ initValue.kind = "str"
(***************************************************************************)
(* Claims about the node (checked under Spec).                             *)
(***************************************************************************)

TypeNamesOf(types) == {types[i].name : i \in 1..Len(types)}
ListedPorts ==
    {heap[requirePorts[i]] : i \in 1..Len(requirePorts)}
        \cup {heap[providePorts[i]] : i \in 1..Len(providePorts)}
NodeUnchanged ==
    UNCHANGED <<name, dataTypes, dataTypeMap, requirePorts, providePorts, heap>>

\* the autosar port of a call that registers a data type, and whether the
\* call gets as far as the registry (one data element, sender-receiver)
IsRegisterCall(o) ==
    \/ o.name = "_updateDataType"
    \/ o.name = "append" /\ o.arg.kind = "AutosarPort"
AutosarPortOf(o) == IF o.name = "_updateDataType" THEN o.arg ELSE o.arg.value
ReachesRegistry(port) == port.isSenderReceiver /\ port.nDataElements = 1

\* the ids are the positions, and the map indexes exactly the listed records
C3_DenseIds ==
    /\ \A i \in 1..Len(dataTypes) :
        /\ dataTypes[i].id = i - 1
        /\ dataTypes[i].name \in DOMAIN dataTypeMap
        /\ dataTypeMap[dataTypes[i].name] = dataTypes[i]
    /\ DOMAIN dataTypeMap = TypeNamesOf(dataTypes)

\* what a registering call does to the registry
C3_RegisterStep ==
    (IsRegisterCall(op') /\ ReachesRegistry(AutosarPortOf(op'))) =>
        LET port == AutosarPortOf(op')
            tn == port.type.name
        IN  /\ tn \in DOMAIN dataTypeMap =>
                /\ dataTypes' = dataTypes
                /\ dataTypeMap' = dataTypeMap
                /\ op'.name = "_updateDataType" => ret' = TypeRet(dataTypeMap[tn])
            /\ tn \notin DOMAIN dataTypeMap =>
                IF tn \in DOMAIN dataTypeMap'
                THEN /\ dataTypes' = Append(dataTypes, dataTypeMap'[tn])
                     /\ dataTypeMap'[tn].id = Len(dataTypes)
                     /\ op'.name = "_updateDataType" => ret' = TypeRet(dataTypeMap'[tn])
                ELSE dataTypes' = dataTypes /\ dataTypeMap' = dataTypeMap
            /\ (op'.name = "append" /\ ret'.kind = "port") =>
                /\ heap'[ret'.handle].dsg.kind = "ref"
                /\ heap'[ret'.handle].dsg.index = dataTypeMap'[tn].id

\* a registered type keeps its place and its record
C3_TypesKept ==
    \A i \in 1..Len(dataTypes) : Len(dataTypes') >= i /\ dataTypes'[i] = dataTypes[i]

\* C3: registering a foreign type whose name is in the registry returns the
\* existing record and leaves dataTypes and dataTypeMap as they are; a new
\* name is appended with id = the count before. So the ids are dense, in
\* order of first use, and an imported port refers to the id of its type's
\* registry entry, the same for every port of that type.
C3_ImportDedup == []C3_DenseIds /\ [][C3_RegisterStep /\ C3_TypesKept]_vars

\* _updateDataType has returned a record that was registered before the call
C3_Witness ==
    /\ op.name = "_updateDataType"
    /\ ret.kind = "type"
    /\ Len(dataTypes) >= 2
    /\ ret.value = dataTypes[1]

C4_UniqueNames ==
    \A i, j \in 1..Len(dataTypes) : dataTypes[i].name = dataTypes[j].name => i = j

C4_DuplicateStep ==
    (op'.name = "append" /\ op'.arg.kind = "DataType"
        /\ op'.arg.value.name \in DOMAIN dataTypeMap) =>
            ret' = Raise("ValueError") /\ NodeUnchanged

\* C4: appending a data type whose name the node already has raises and
\* leaves the node (types, map, both port lists, the registered type's id) as
\* it was; type names stay unique.
C4_AppendRejectsDuplicate == []C4_UniqueNames /\ [][C4_DuplicateStep]_vars

\* an explicit append was rejected for a name that import had registered
C4_Witness ==
    /\ op.name = "append" /\ op.arg.kind = "DataType"
    /\ ret = Raise("ValueError")
    /\ dataTypeMap[op.arg.value.name].dsg # op.arg.value.dsg

TagRank(tag) == CASE tag = "N" -> 0 [] tag = "T" -> 1 [] tag = "P" -> 2 [] tag = "R" -> 3

\* C5: lines() and write() give the same sequence: the header line N first,
\* then one T line per data type in registry order, one P line per provide
\* port in append order, one R line per require port in append order; no T
\* line follows a P or R line and no P line follows an R line.
C5_SerializationOrder ==
    ret.kind \in {"lines", "fp"} =>
        LET L == ret.value
            nt == Len(dataTypes)
            np == Len(providePorts)
            nr == Len(requirePorts)
        IN  /\ lines(Self) = write(Self)
            /\ L = lines(Self)
            /\ Len(L) = 1 + nt + np + nr
            /\ L[1].tag = "N" /\ L[1].name = name
            /\ \A i \in 1..nt :
                /\ L[1 + i].tag = "T" /\ L[1 + i].name = dataTypes[i].name
                /\ L[1 + i].dsg = dataTypes[i].dsg /\ L[1 + i].attr = dataTypes[i].attr
            /\ \A i \in 1..np :
                /\ L[1 + nt + i].tag = "P"
                /\ L[1 + nt + i].name = heap[providePorts[i]].name
                /\ L[1 + nt + i].dsg = heap[providePorts[i]].dsg
                /\ L[1 + nt + i].attr = heap[providePorts[i]].attr
            /\ \A i \in 1..nr :
                /\ L[1 + nt + np + i].tag = "R"
                /\ L[1 + nt + np + i].name = heap[requirePorts[i]].name
                /\ L[1 + nt + np + i].dsg = heap[requirePorts[i]].dsg
                /\ L[1 + nt + np + i].attr = heap[requirePorts[i]].attr
            /\ \A i, j \in 1..Len(L) : i < j => TagRank(L[i].tag) <= TagRank(L[j].tag)
            /\ \A i \in 2..Len(L) : L[i].tag # "N"

\* write() has run on a node holding types, provide ports and require ports
C5_Witness ==
    /\ ret.kind = "fp"
    /\ Len(dataTypes) >= 1 /\ Len(providePorts) >= 1 /\ Len(requirePorts) >= 1

\* the ports of list hs of node a are, position by position, those of list
\* gs of node b, up to their ids
SamePorts(a, hs, b, gs) ==
    /\ Len(hs) = Len(gs)
    /\ \A i \in 1..Len(hs) :
        /\ a.heap[hs[i]].name = b.heap[gs[i]].name
        /\ a.heap[hs[i]].dsg = b.heap[gs[i]].dsg
        /\ a.heap[hs[i]].attr = b.heap[gs[i]].attr
ClassIs(a, hs, cls) == \A i \in 1..Len(hs) : a.heap[hs[i]].cls = cls

\* C6: one mirror() turns the provide ports into the require ports and the
\* require ports into the provide ports, in order, with name, signature and
\* attribute kept; mirror() of that gives back the node's data types and port
\* lists (up to the port ids) and, with no name passed, its name.
C6_MirrorInvolution ==
    ret.kind = "node" =>
        LET m == ret.value IN
        /\ ret.depth = 1 =>
            /\ SamePorts(m, m.requirePorts, Self, providePorts)
            /\ SamePorts(m, m.providePorts, Self, requirePorts)
            /\ ClassIs(m, m.requirePorts, "RequirePort")
            /\ ClassIs(m, m.providePorts, "ProvidePort")
            /\ m.dataTypes = dataTypes
        /\ ret.depth = 2 =>
            /\ SamePorts(m, m.requirePorts, Self, requirePorts)
            /\ SamePorts(m, m.providePorts, Self, providePorts)
            /\ ClassIs(m, m.requirePorts, "RequirePort")
            /\ ClassIs(m, m.providePorts, "ProvidePort")
            /\ m.dataTypes = dataTypes
            /\ ret.names = <<None, None>> => m.name = name

\* mirror().mirror() has run on a node with ports in both lists, one of them
\* carrying an initial value
C6_Witness ==
    /\ ret.kind = "node" /\ ret.depth = 2 /\ ret.names = <<None, None>>
    /\ Len(providePorts) >= 1 /\ Len(requirePorts) >= 1 /\ Len(dataTypes) >= 1
    /\ \E port \in ListedPorts : port.attr # None

\* C9: the port at position i of requirePorts has id i and the port at
\* position j of providePorts has id j (counted from 0), also after a port
\* object that is already in a list is appended again.
C9_PortIdsArePositions ==
    /\ \A i \in 1..Len(requirePorts) : heap[requirePorts[i]].id = i - 1
    /\ \A i \in 1..Len(providePorts) : heap[providePorts[i]].id = i - 1

C10_ValidReferences ==
    \A port \in ListedPorts :
        isReference(port.dsg) =>
            /\ port.dsg.resolved
            /\ 0 <= port.dsg.index /\ port.dsg.index < Len(dataTypes)
            /\ port.dsg.byName => dataTypes[port.dsg.index + 1].name = port.dsg.name

\* the signature a port append is called with, for the items that carry one
CarriesSignature(it) ==
    \/ it.kind = "NewPort"
    \/ it.kind = "str" /\ Len(it.parts) = 4 /\ it.parts[1] \in {"R", "P"}
SignatureOf(it) == IF it.kind = "NewPort" THEN it.value.dsg ELSE it.parts[3]
Dangling(dsg) ==
    /\ isReference(dsg)
    /\ IF dsg.byName THEN dsg.name \notin TypeNamesOf(dataTypes)
       ELSE ~(0 <= dsg.index /\ dsg.index < Len(dataTypes))

C10_AppendStep ==
    /\ (op'.name = "append" /\ CarriesSignature(op'.arg)
            /\ Dangling(SignatureOf(op'.arg))) =>
                ret'.kind = "raise" /\ NodeUnchanged
    /\ (op'.name = "append" /\ op'.arg.kind = "AutosarPort" /\ ret'.kind = "port") =>
                heap'[ret'.handle].dsg.index = dataTypeMap'[op'.arg.value.type.name].id

\* C10: every listed port whose signature is a type reference designates an
\* index i with 0 <= i < len(dataTypes); for an imported port the index is the
\* id of the registry entry of its foreign type; appending a port whose
\* reference names no registered type or index raises and adds nothing.
C10_ReferencesResolve == []C10_ValidReferences /\ [][C10_AppendStep]_vars

\* a port referring to a type by name has been appended and bound
C10_Witness ==
    /\ op.name = "append" /\ op.arg.kind = "NewPort"
    /\ ret.kind = "port"
    /\ heap[ret.handle].dsg.kind = "ref" /\ heap[ret.handle].dsg.byName
    /\ heap[ret.handle].dsg.resolved
====
